---- MODULE Spec2Model ----
(***************************************************************************)
(* A model of src/index.tsx: the document registry's in-memory collection, *)
(* its localStorage mirror, the remote store client syncWithGoogleSheet    *)
(* and the create / update / delete / startup-sync handlers, each split at *)
(* its await points.                                                       *)
(*                                                                         *)
(* Strings are tuples of one-character strings ("ab" is <<"a","b">>), so   *)
(* trim, toLowerCase, includes and the date pattern are computed.          *)
(***************************************************************************)
EXTENDS Integers, Sequences, FiniteSets, TLC

(* ------------------------------ bounds -------------------------------- *)

\* Documents created in one session.
MaxCreates == 1

\* Deletions confirmed in one session.
MaxDeletes == 2

\* Edits submitted in one session that reach the remote call.
MaxUpdates == 1

\* The longest collection the search and sort scenarios start from (one
\* collection of eleven documents apart).
MaxDocs == 3

(* ------------------------------ strings ------------------------------- *)

\* An optional field that is absent (fileName?, fileContent?, fileType?).
Undefined == <<"undefined">>

Digits == {"0", "1", "2", "3", "4", "5", "6", "7", "8", "9"}

\* String.prototype.trim: leading and trailing white space removed.
RECURSIVE trimStart(_)
trimStart(s) ==
  IF s # <<>> /\ Head(s) = " " THEN trimStart(Tail(s)) ELSE s

RECURSIVE trimEnd(_)
trimEnd(s) ==
  IF s # <<>> /\ s[Len(s)] = " " THEN trimEnd(SubSeq(s, 1, Len(s) - 1)) ELSE s

trim(s) == trimEnd(trimStart(s))

\* One character of String.prototype.toLowerCase.
lowerChar(c) ==
  CASE c = "A" -> "a"
    [] c = "B" -> "b"
    [] c = "C" -> "c"
    [] OTHER -> c

toLowerCase(s) == [i \in 1..Len(s) |-> lowerChar(s[i])]

\* String.prototype.includes: q occurs in s as a contiguous substring.
includes(s, q) ==
  \E i \in 0..(Len(s) - Len(q)) : SubSeq(s, i + 1, i + Len(q)) = q

\* /^\d{2}\/\d{2}\/\d{4}$/.test(s)
dateRegex(s) ==
  /\ Len(s) = 10
  /\ s[3] = "/"
  /\ s[6] = "/"
  /\ \A i \in {1, 2, 4, 5, 7, 8, 9, 10} : s[i] \in Digits

(* ----------------------------- documents ------------------------------ *)

\* An empty slot of a sparse JavaScript array.
Hole == [hole |-> TRUE]

\* JSON null.
Null == [null |-> TRUE]

\* `doc_${Date.now()}`: the id is the millisecond clock value it embeds.
docId(t) == t

\* new Date().toISOString(): the timestamp, read back by new Date(s).getTime().
toISOString(t) == t

Doc(id, docNumber, docDate, source, subject, notes, tags, createdAt) ==
  [id |-> id, docNumber |-> docNumber, docDate |-> docDate, source |-> source,
   subject |-> subject, notes |-> notes, tags |-> tags, createdAt |-> createdAt,
   fileName |-> Undefined, fileType |-> Undefined, fileContent |-> Undefined]

\* documents.findIndex(d => d.id === docId), 1-based: 0 stands for -1 (no
\* match). findIndex and find visit the empty slots of a sparse array as
\* undefined, where d.id throws a TypeError: Throws stands for that.
Throws == 0 - 1

firstMatch(docs, id) ==
  IF \E i \in 1..Len(docs) : docs[i] # Hole /\ docs[i].id = id
  THEN CHOOSE i \in 1..Len(docs) :
         /\ docs[i] # Hole /\ docs[i].id = id
         /\ \A j \in 1..(i - 1) : docs[j] = Hole \/ docs[j].id # id
  ELSE Len(docs) + 1

findIndex(docs, id) ==
  IF \E j \in 1..(firstMatch(docs, id) - 1) : j <= Len(docs) /\ docs[j] = Hole
  THEN Throws
  ELSE IF firstMatch(docs, id) > Len(docs) THEN 0 ELSE firstMatch(docs, id)

\* documents[docIndex] = doc: an index past the end leaves holes before it.
arraySet(docs, i, doc) ==
  [j \in 1..(IF i > Len(docs) THEN i ELSE Len(docs)) |->
     IF j = i THEN doc ELSE IF j <= Len(docs) THEN docs[j] ELSE Hole]

\* documents.unshift(doc)
unshift(docs, doc) == <<doc>> \o docs

\* documents.filter(d => d.id !== docId): filter skips holes.
RECURSIVE filterOut(_, _)
filterOut(docs, id) ==
  IF docs = <<>> THEN <<>>
  ELSE IF Head(docs) = Hole \/ Head(docs).id = id
       THEN filterOut(Tail(docs), id)
       ELSE <<Head(docs)>> \o filterOut(Tail(docs), id)

\* JSON.stringify(documents): a hole is written as null.
JSON_stringify(docs) ==
  [item |-> TRUE,
   json |-> [i \in 1..Len(docs) |-> IF docs[i] = Hole THEN Null ELSE docs[i]]]

\* JSON.parse(text)
JSON_parse(text) == text.json

\* localStorage.getItem('documents') of an empty slot.
NoItem == [item |-> FALSE]

(* ------------------- syncWithGoogleSheet (one call) -------------------- *)

\* retries = 2, delay = 1000: the default arguments.
DefaultRetries == 2
DefaultDelay == 1000

Actions == {"create", "update", "delete", "read"}

\* Messages of the errors the call throws.
MsgUnknown == "unknown Google Sheets sync error"
MsgInvalidResponse == "invalid response from the server"
MsgFailedToFetch == "sync failed (Failed to fetch): check the connection and the Web App permissions"
MsgHttp(status) ==
  CASE status = 404 -> "HTTP error! status: 404"
    [] status = 500 -> "HTTP error! status: 500"
    [] OTHER -> "HTTP error! status"

\* What one fetch can bring: a rejection with TypeError 'Failed to fetch',
\* or a response with a status.
Statuses == {200, 404, 500}

\* response.ok
ok(status) == status >= 200 /\ status <= 299

\* Response bodies: text that is no JSON, and JSON objects with or without
\* the fields success, error and data.
ServerError == "row not found"
Bodies ==
  {[parses |-> FALSE, success |-> "undefined", error |-> "", data |-> "undefined"],
   [parses |-> TRUE, success |-> "true", error |-> "", data |-> "data"],
   [parses |-> TRUE, success |-> "undefined", error |-> "", data |-> "data"],
   [parses |-> TRUE, success |-> "false", error |-> ServerError, data |-> "undefined"],
   [parses |-> TRUE, success |-> "false", error |-> "", data |-> "undefined"]}

NoBody == [none |-> TRUE]

Return(data) == [kind |-> "return", data |-> data, error |-> ""]
Throw(message) == [kind |-> "throw", data |-> "undefined", error |-> message]

\* The statements inside the inner try: JSON.parse throws a SyntaxError on
\* text that is no JSON; success === false throws result.error || default.
innerTry(body) ==
  IF ~body.parses THEN Throw("SyntaxError")
  ELSE IF body.success = "false"
       THEN Throw(IF body.error # "" THEN body.error ELSE MsgUnknown)
       ELSE Return(body.data)

\* try { ... } catch (e) { throw new Error(invalid response) }: the catch
\* clause receives whatever the try block threw.
parseResponse(body) ==
  IF innerTry(body).kind = "throw" THEN Throw(MsgInvalidResponse) ELSE innerTry(body)

(* ------------------------------- forms --------------------------------- *)

NoFile == [none |-> TRUE]

\* const maxSize = 50 * 1024 * 1024
maxSize == 50 * 1024 * 1024

allowedTypes == {"image/jpeg", "image/png", "image/gif", "application/pdf"}

\* A file chosen in a file input, already accepted by handleFileChange.
File1 ==
  [name |-> <<"f">>, type |-> "application/pdf", bytes |-> "bytes",
   size |-> maxSize]

\* The files a user may pick: at the size limit and one byte over it, of an
\* allowed type and of another one.
Files ==
  {[name |-> <<"f">>, type |-> type, bytes |-> "bytes", size |-> size] :
     type \in {"application/pdf", "text/plain"},
     size \in {maxSize, maxSize + 1}}

\* A change handler that tests the type of the file only.
handleFileChange_NoSizeLimit(file) ==
  IF file = NoFile THEN NoFile
  ELSE IF file.type \notin allowedTypes THEN NoFile
  ELSE file

\* handleFileChange: what the input holds after the change event, the
\* picked file or nothing (input.value = '').
handleFileChange(file) ==
  IF file = NoFile THEN NoFile
  ELSE IF file.size > maxSize THEN NoFile
  ELSE IF file.type \notin allowedTypes THEN NoFile
  ELSE file

\* fileToBase64: the part of the data URL after the comma.
fileToBase64(file) == <<"base64", file.bytes>>

\* value.replace(/\D/g, '')
RECURSIVE digitsOf(_)
digitsOf(s) ==
  IF s = <<>> THEN <<>>
  ELSE IF Head(s) \in Digits THEN <<Head(s)>> \o digitsOf(Tail(s))
       ELSE digitsOf(Tail(s))

\* s.slice(from, to), 0-based and clamped as JavaScript does.
slice(s, from, to) ==
  SubSeq(s, from + 1, IF to > Len(s) THEN Len(s) ELSE to)

\* formatDateInput, run on every input event of a date field: what the
\* field holds is always the result of it.
formatDateInput(typed) ==
  LET digits == digitsOf(typed)
      slashed == IF Len(digits) > 2
                 THEN slice(digits, 0, 2) \o <<"/">> \o slice(digits, 2, Len(digits))
                 ELSE digits
  IN IF Len(slashed) > 5
     THEN slice(slashed, 0, 5) \o <<"/">> \o slice(slashed, 5, 9)
     ELSE slashed

GoodDate == formatDateInput(<<"0", "1", "0", "1", "2", "5", "6", "6">>)
ShortDate == formatDateInput(<<"0", "1", "/", "0", "1", "/", "6", "6">>)

Form(docNumber, docDate, source, subject, file) ==
  [docNumber |-> docNumber, docDate |-> docDate, source |-> source,
   subject |-> subject, notes |-> <<>>, file |-> file]

\* What the user may have typed when a form is submitted: every field
\* filled and an attachment chosen (so that a handler passes through the
\* encoding of it), and each required field in turn empty, blank or
\* malformed, with and without an attachment.
FilledForms(subject) ==
  {Form(<<"7">>, GoodDate, <<"s">>, subject, file) : file \in {File1}}

BadForms ==
  {Form(<<>>, GoodDate, <<"s">>, <<"B">>, NoFile),
   Form(<<"7">>, ShortDate, <<"s">>, <<"B">>, File1),
   Form(<<"7">>, GoodDate, <<" ">>, <<"B">>, NoFile),
   Form(<<"7">>, GoodDate, <<"s">>, <<" ", " ">>, NoFile)}

\* The save form is filed with one subject, the edit form changes it.
SaveForms == FilledForms(<<"a", "b">>) \cup BadForms
EditForms == FilledForms(<<"B">>) \cup BadForms

\* form.elements.namedItem('attachment'): the form as typed, with the file
\* its file input holds.
Attached(form, file) == [form EXCEPT !.file = file]

AttachedForms(forms) ==
  {Attached(form, file) : form \in forms, file \in Files \cup {NoFile}}

\* A validation that only asks the date field to be filled, without the
\* pattern test.
invalidFields_NoDateCheck(form) ==
  {f \in {"docNumber"} : trim(form.docNumber) = <<>>}
  \cup {f \in {"docDate"} : trim(form.docDate) = <<>>}
  \cup {f \in {"source"} : trim(form.source) = <<>>}
  \cup {f \in {"subject"} : trim(form.subject) = <<>>}

\* The inline validation of handleSaveDocument and handleUpdateDocument: the
\* fields that get the class 'invalid'.
invalidFields(form) ==
  {f \in {"docNumber"} : trim(form.docNumber) = <<>>}
  \cup {f \in {"docDate"} :
          trim(form.docDate) = <<>> \/ ~dateRegex(trim(form.docDate))}
  \cup {f \in {"source"} : trim(form.source) = <<>>}
  \cup {f \in {"subject"} : trim(form.subject) = <<>>}

\* let isValid = true; ... isValid = false
\* The forms are few: the outcome of the validation, form by form.
markedFields ==
  [form \in AttachedForms(SaveForms \cup EditForms) |-> invalidFields(form)]

isValid(form) == markedFields[form] = {}

(* ------------------------------ the view -------------------------------- *)

\* .slice(0, 10) of renderRecentDocuments
RecentCount == 10

\* renderRecentDocuments on a non-empty collection: [...documents] turns an
\* empty slot into undefined, sort moves it last, slice keeps it when fewer
\* than ten documents precede it, and the row template reads doc.docNumber
\* of it: a TypeError.
renderRecentThrows(docs) ==
  /\ \E i \in 1..Len(docs) : docs[i] = Hole
  /\ Cardinality({i \in 1..Len(docs) : docs[i] # Hole}) < RecentCount

MsgTypeError == "TypeError: cannot read properties of undefined"

\* The re-render at the end of saveDocuments: handleSearch when the search
\* input holds a query (filter skips empty slots), else
\* renderRecentDocuments; nothing when the search view is hidden.
renderThrows(docs, visible, input) ==
  visible /\ trim(input) = <<>> /\ renderRecentThrows(docs)

\* A filter callback that compares the fields as they are written.
matches_CaseSensitive(doc, query) ==
  \/ includes(doc.subject, query)
  \/ includes(doc.docNumber, query)
  \/ includes(doc.source, query)
  \/ includes(doc.notes, query)
  \/ /\ doc.fileName # Undefined /\ doc.fileName # <<>>
     /\ includes(doc.fileName, query)
  \/ \E i \in 1..Len(doc.tags) : includes(doc.tags[i], query)

\* The filter callback of handleSearch; query is already lower-cased and
\* trimmed.
matches(doc, query) ==
  \/ includes(toLowerCase(doc.subject), query)
  \/ includes(toLowerCase(doc.docNumber), query)
  \/ includes(toLowerCase(doc.source), query)
  \/ includes(toLowerCase(doc.notes), query)
  \/ /\ doc.fileName # Undefined /\ doc.fileName # <<>>
     /\ includes(toLowerCase(doc.fileName), query)
  \/ \E i \in 1..Len(doc.tags) : includes(toLowerCase(doc.tags[i]), query)

\* documents.filter(doc => ...) of handleSearch: filter skips empty slots.
RECURSIVE filterMatches(_, _)
filterMatches(docs, query) ==
  IF docs = <<>> THEN <<>>
  ELSE IF Head(docs) # Hole /\ matches(Head(docs), query)
       THEN <<Head(docs)>> \o filterMatches(Tail(docs), query)
       ELSE filterMatches(Tail(docs), query)

\* One step of the stable sort by createdAt, newest first: doc goes behind
\* every document that is not older than it.
RECURSIVE insertByCreatedAt(_, _)
insertByCreatedAt(sorted, doc) ==
  IF sorted = <<>> THEN <<doc>>
  ELSE IF Head(sorted).createdAt >= doc.createdAt
       THEN <<Head(sorted)>> \o insertByCreatedAt(Tail(sorted), doc)
       ELSE <<doc>> \o sorted

RECURSIVE sortByCreatedAt(_)
sortByCreatedAt(docs) ==
  IF docs = <<>> THEN <<>>
  ELSE IF docs[Len(docs)] = Hole
       THEN sortByCreatedAt(SubSeq(docs, 1, Len(docs) - 1))
       ELSE insertByCreatedAt(sortByCreatedAt(SubSeq(docs, 1, Len(docs) - 1)),
                              docs[Len(docs)])

\* What an empty slot becomes in a copy of the array ([...documents]).
UndefinedEntry == [undefined |-> TRUE]

\* [...documents].sort(...): the documents newest first, and behind them one
\* undefined entry for every empty slot.
spreadSorted(docs) ==
  sortByCreatedAt(docs) \o
    [i \in 1..(Len(docs) - Len(sortByCreatedAt(docs))) |-> UndefinedEntry]

\* The documents renderRecentDocuments hands to renderResultsTable: the
\* first ten of them.
recentDocs(docs) ==
  SubSeq(spreadSorted(docs), 1,
         IF Len(docs) > RecentCount THEN RecentCount ELSE Len(docs))

\* The documents handleSearch shows for the text in the search input.
handleSearch(docs, input) ==
  IF trim(toLowerCase(input)) = <<>> THEN recentDocs(docs)
  ELSE filterMatches(docs, trim(toLowerCase(input)))

(* --------------------------- sorting the table -------------------------- *)

\* beDateString.split('/')
RECURSIVE split(_)
split(s) ==
  IF \A i \in 1..Len(s) : s[i] # "/" THEN <<s>>
  ELSE LET i == CHOOSE i \in 1..Len(s) :
                  s[i] = "/" /\ \A j \in 1..(i - 1) : s[j] # "/"
       IN <<SubSeq(s, 1, i - 1)>> \o split(SubSeq(s, i + 1, Len(s)))

digitValue(c) ==
  CASE c = "0" -> 0 [] c = "1" -> 1 [] c = "2" -> 2 [] c = "3" -> 3
    [] c = "4" -> 4 [] c = "5" -> 5 [] c = "6" -> 6 [] c = "7" -> 7
    [] c = "8" -> 8 [] c = "9" -> 9

\* parseInt(s, 10) of a string of digits.
RECURSIVE parseInt(_)
parseInt(s) ==
  IF s = <<>> THEN 0
  ELSE 10 * parseInt(SubSeq(s, 1, Len(s) - 1)) + digitValue(s[Len(s)])

\* The day number of the first day of a month of the proleptic Gregorian
\* calendar (day 0 is 1970-01-01); month is 1..12.
daysFromCivil(year, month) ==
  LET y == IF month <= 2 THEN year - 1 ELSE year
      era == y \div 400
      yoe == y - era * 400
      doy == (153 * (IF month > 2 THEN month - 3 ELSE month + 9) + 2) \div 5
      doe == yoe * 365 + yoe \div 4 - yoe \div 100 + doy
  IN era * 146097 + doe - 719468

\* new Date(year, monthIndex, day).getTime(), counted in days: the value is
\* a midnight, a whole number of days of 86,400,000 ms (the time zone is
\* taken to be UTC), and the sort only compares such values. A year from 0
\* to 99 stands for 1900 + year, and a month index or a day out of range
\* carries over.
DateTime(year, monthIndex, day) ==
  LET fullYear == IF year >= 0 /\ year <= 99 THEN 1900 + year ELSE year
  IN daysFromCivil(fullYear + monthIndex \div 12, (monthIndex % 12) + 1)
       + day - 1

beDateToTimestamp(beDateString) ==
  IF beDateString = <<>> THEN 0
  ELSE IF Len(split(beDateString)) # 3 THEN 0
  ELSE DateTime(parseInt(split(beDateString)[3]) - 543,
                parseInt(split(beDateString)[2]) - 1,
                parseInt(split(beDateString)[1]))

\* let currentSort = { key: 'createdAt', direction: 'desc' }
DefaultSort == [key |-> "createdAt", direction |-> "desc"]

\* The data-sort-key values of the sortable headers.
SortKeys == {"docNumber", "docDate", "source", "subject"}

\* The place of a character in the collation of letters and digits: digits
\* before letters, letters in alphabetical order whatever their case.
primaryWeight(c) ==
  CASE c \in Digits -> digitValue(c)
    [] c \in {"a", "A"} -> 10
    [] c \in {"b", "B"} -> 11
    [] c \in {"c", "C"} -> 12
    [] c = "f" -> 15
    [] c = "s" -> 28
    [] c = "x" -> 33

isUpperCase(c) == c \in {"A", "B", "C"}

\* The first place where two sequences of numbers differ decides; a proper
\* prefix comes first. The result is negative, zero or positive.
RECURSIVE compareWeights(_, _)
compareWeights(a, b) ==
  IF a = <<>> THEN (IF b = <<>> THEN 0 ELSE 0 - 1)
  ELSE IF b = <<>> THEN 1
  ELSE IF Head(a) # Head(b) THEN Head(a) - Head(b)
  ELSE compareWeights(Tail(a), Tail(b))

\* valA.localeCompare(valB, 'th') on strings of Latin letters and digits:
\* the letters and digits decide first, and between strings that differ in
\* case only the one with the lower-case letter comes first.
localeCompare(valA, valB) ==
  IF compareWeights([i \in 1..Len(valA) |-> primaryWeight(valA[i])],
                    [i \in 1..Len(valB) |-> primaryWeight(valB[i])]) # 0
  THEN compareWeights([i \in 1..Len(valA) |-> primaryWeight(valA[i])],
                      [i \in 1..Len(valB) |-> primaryWeight(valB[i])])
  ELSE compareWeights([i \in 1..Len(valA) |-> IF isUpperCase(valA[i]) THEN 1 ELSE 0],
                      [i \in 1..Len(valB) |-> IF isUpperCase(valB[i]) THEN 1 ELSE 0])

\* The comparator of renderResultsTable: negative when a goes before b.
compareDocs(a, b, sort) ==
  IF sort.key = "docDate"
  THEN IF sort.direction = "asc"
       THEN beDateToTimestamp(a.docDate) - beDateToTimestamp(b.docDate)
       ELSE beDateToTimestamp(b.docDate) - beDateToTimestamp(a.docDate)
  ELSE IF sort.key = "createdAt"
  THEN IF sort.direction = "asc"
       THEN a.createdAt - b.createdAt
       ELSE b.createdAt - a.createdAt
  ELSE IF sort.direction = "asc"
       THEN localeCompare(a[sort.key], b[sort.key])
       ELSE localeCompare(b[sort.key], a[sort.key])

\* One step of the stable sort: doc goes behind every document the
\* comparator does not put behind it.
RECURSIVE insertSorted(_, _, _)
insertSorted(sorted, doc, sort) ==
  IF sorted = <<>> THEN <<doc>>
  ELSE IF compareDocs(Head(sorted), doc, sort) <= 0
       THEN <<Head(sorted)>> \o insertSorted(Tail(sorted), doc, sort)
       ELSE <<doc>> \o sorted

\* [...docs].sort(comparator) on documents (Array.prototype.sort is stable).
RECURSIVE sortedDocs(_, _)
sortedDocs(docs, sort) ==
  IF docs = <<>> THEN <<>>
  ELSE insertSorted(sortedDocs(SubSeq(docs, 1, Len(docs) - 1), sort),
                    docs[Len(docs)], sort)

(* ---------------------------- the results view -------------------------- *)

\* No header of the table carries data-sort-direction.
NoHeader == [key |-> "none", direction |-> "none"]

\* The content of the search-results container: a placeholder paragraph
\* (no document, or the notice that the sheet is being read), or the table
\* with its rows in order and the header that carries data-sort-direction.
Placeholder == [shown |-> "placeholder", rows |-> <<>>, header |-> NoHeader]
Table(rows, sort) ==
  [shown |-> "table", rows |-> rows,
   header |-> IF sort.key \in SortKeys THEN sort ELSE NoHeader]

TitleRecent == "recent"
TitleResults == "results"

\* The view when the module has run: the startup read has put its notice
\* in the container, no table was rendered, no file is chosen.
ViewStart ==
  [sort |-> DefaultSort, lastRenderedDocs |-> <<>>, lastRenderedTitle |-> "",
   table |-> Placeholder, attachment |-> NoFile, editAttachment |-> NoFile]

\* The row template reads doc.docNumber of every entry: a TypeError on an
\* undefined one, before the container is written.
renderResultsThrows(docs) == \E i \in 1..Len(docs) : docs[i] = UndefinedEntry

\* renderResultsTable(docs, title), on the view v.
renderResultsTable(v, docs, title) ==
  IF Len(docs) = 0
  THEN [v EXCEPT !.lastRenderedDocs = docs, !.lastRenderedTitle = title,
                 !.table = Placeholder]
  ELSE IF renderResultsThrows(docs)
  THEN [v EXCEPT !.lastRenderedDocs = docs, !.lastRenderedTitle = title]
  ELSE [v EXCEPT !.lastRenderedDocs = docs, !.lastRenderedTitle = title,
                 !.table = Table(sortedDocs(docs, v.sort), v.sort)]

\* renderRecentDocuments(), on the view v.
renderRecentDocuments(v, docs) ==
  IF Len(docs) = 0
  THEN [v EXCEPT !.table = Placeholder]
  ELSE renderResultsTable([v EXCEPT !.sort = DefaultSort], recentDocs(docs),
                          TitleRecent)

\* handleSearch(), on the view v, the search input holding input.
renderSearch(v, docs, input) ==
  IF trim(toLowerCase(input)) = <<>> THEN renderRecentDocuments(v, docs)
  ELSE renderResultsTable(v, handleSearch(docs, input), TitleResults)

\* The re-render at the end of saveDocuments.
rerender(v, docs, visible, input) ==
  IF visible THEN renderSearch(v, docs, input) ELSE v

\* The finally block of the startup read.
syncFinally(v, docs, visible) ==
  IF visible THEN renderRecentDocuments(v, docs) ELSE v

VARIABLES
  documents,    \* let documents: Document[]
  cache,        \* localStorage slot 'documents': NoItem or a JSON text
  remote,       \* rows of the remote sheet
  now,          \* Date.now(), in milliseconds
  save,         \* the running handleSaveDocument, if any
  upd,          \* the running handleUpdateDocument, if any
  deletes,      \* the running handleDeleteDocument calls
  sync,         \* the startup synchronisation
  edit,         \* the edit modal: shown or not, and its hidden edit-docId
  marks,        \* the fields the step just taken marked invalid, per form
  toast,        \* the toast the step just taken showed, if any
  searchVisible, \* search-view is displayed
  searchInput,  \* value of search-input
  ops,          \* how many updates and deletes the session has begun
  exec,         \* one call of syncWithGoogleSheet and its recursive calls
  view          \* the results table, its sort state and the attachment inputs

appVars ==
  <<documents, cache, remote, now, save, upd, deletes, sync, edit, marks,
    toast, searchVisible, searchInput, ops>>

vars == <<appVars, exec, view>>

(* --------------------------- initial state ------------------------------ *)

\* A document filed in an earlier session.
Seed1 ==
  Doc(docId(1), <<"7">>, GoodDate, <<"s">>, <<"a", "b">>, <<>>, << <<"A">> >>,
      toISOString(1))

\* The errors a call of syncWithGoogleSheet ends with (see ExecNext).
SyncErrors == {MsgFailedToFetch, MsgInvalidResponse, MsgHttp(500)}

NoDoc == [none |-> TRUE]
NoToast == [type |-> "none", message |-> <<>>]
NoMarks == [save |-> {}, edit |-> {}]
Toast(type, message) == [type |-> type, message |-> message]

\* The edit modal hidden. Its hidden edit-docId keeps its value, which
\* nothing reads before showEditModal sets it again: it is left out.
EditClosed == [open |-> FALSE, docId |-> 0]

SaveIdle == [pc |-> "idle", form |-> NoDoc, doc |-> NoDoc, call |-> "none"]
UpdIdle == [pc |-> "idle", docIndex |-> 0, file |-> NoFile, doc |-> NoDoc, call |-> "none"]

\* let documents = JSON.parse(localStorage.getItem('documents') || '[]')
loadDocuments(item) ==
  JSON_parse(IF item = NoItem THEN JSON_stringify(<<>>) ELSE item)

\* The state once the module has run: documents loaded from the cache, the
\* store tab active, and the startup read of the sheet requested.
AppInit ==
  /\ cache \in {NoItem, JSON_stringify(<<Seed1>>)}
  /\ documents = loadDocuments(cache)
  /\ remote \in {<<>>, <<Seed1>>}
  /\ now = Seed1.createdAt
  /\ save = SaveIdle
  /\ upd = UpdIdle
  /\ deletes = <<>>
  /\ sync = [pc |-> "read", call |-> "pending", data |-> <<>>]
  /\ edit = EditClosed
  /\ marks = NoMarks
  /\ toast = NoToast
  /\ searchVisible = FALSE
  /\ searchInput = <<>>
  /\ ops = [updates |-> 0, deletes |-> 0]

\* localStorage.setItem('documents', JSON.stringify(documents))
saveDocuments(docs) == JSON_stringify(docs)

(* --------------------------- the remote sheet --------------------------- *)

\* The sheet answers a pending request. A request that fails (SyncErrors)
\* is taken never to have been applied.
remoteCreate(rows, doc) == Append(rows, doc)

remoteUpdate(rows, doc) ==
  [i \in 1..Len(rows) |-> IF rows[i].id = doc.id THEN doc ELSE rows[i]]

remoteDelete(rows, id) == filterOut(rows, id)

(* ------------------------- startup synchronisation ---------------------- *)

RemoteRead ==
  /\ sync.pc = "read" /\ sync.call = "pending"
  /\ sync' = [sync EXCEPT !.call = "done", !.data = remote]
  /\ marks' = NoMarks
  /\ toast' = NoToast
  /\ UNCHANGED <<documents, cache, remote, now, save, upd, deletes, edit,
                 searchVisible, searchInput, ops, exec, view>>

\* A synchronisation that keeps the local documents the sheet does not have.
SyncSucceeds_Merge ==
  /\ sync.pc = "read" /\ sync.call = "done"
  /\ documents' = sync.data \o SelectSeq(documents,
                     LAMBDA d : d # Hole /\ findIndex(sync.data, d.id) = 0)
  /\ cache' = saveDocuments(documents')
  /\ view' = syncFinally(rerender(view, documents', searchVisible, searchInput),
                         documents', searchVisible)
  /\ toast' = Toast("success", <<"synced">>)
  /\ sync' = [pc |-> "done", call |-> "none", data |-> <<>>]
  /\ marks' = NoMarks
  /\ UNCHANGED <<remote, now, save, upd, deletes, edit, searchVisible,
                 searchInput, ops, exec>>

\* documents = sheetData; saveDocuments(); showToast(success)
SyncSucceeds ==
  /\ sync.pc = "read" /\ sync.call = "done"
  /\ documents' = sync.data
  /\ cache' = saveDocuments(documents')
  /\ toast' = Toast("success", <<"synced">>)
  /\ view' = syncFinally(rerender(view, documents', searchVisible, searchInput),
                         documents', searchVisible)
  /\ sync' = [pc |-> "done", call |-> "none", data |-> <<>>]
  /\ marks' = NoMarks
  /\ UNCHANGED <<remote, now, save, upd, deletes, edit, searchVisible,
                 searchInput, ops, exec>>

\* A failed synchronisation that discards the local data.
SyncFails_ClearsLocal ==
  /\ sync.pc = "read" /\ sync.call = "pending"
  /\ \E message \in SyncErrors :
       toast' = Toast("error", <<message, "using the last saved data">>)
  /\ documents' = <<>>
  /\ cache' = saveDocuments(documents')
  /\ view' = syncFinally(rerender(view, documents', searchVisible, searchInput),
                         documents', searchVisible)
  /\ sync' = [pc |-> "done", call |-> "none", data |-> <<>>]
  /\ marks' = NoMarks
  /\ UNCHANGED <<remote, now, save, upd, deletes, edit, searchVisible,
                 searchInput, ops, exec>>

\* catch (error): showToast(`${errorMessage}, the app uses the last saved data`)
SyncFails ==
  /\ sync.pc = "read" /\ sync.call = "pending"
  /\ \E message \in SyncErrors :
       toast' = Toast("error", <<message, "using the last saved data">>)
  /\ view' = syncFinally(view, documents, searchVisible)
  /\ sync' = [pc |-> "done", call |-> "none", data |-> <<>>]
  /\ marks' = NoMarks
  /\ UNCHANGED <<documents, cache, remote, now, save, upd, deletes, edit,
                 searchVisible, searchInput, ops, exec>>

(* --------------------------- handleSaveDocument ------------------------- *)

TagLists == {<< <<"A">> >>}

\* Submit of the save form. The submit button is disabled while a save
\* runs. An invalid form returns after marking the fields; a valid one
\* starts loading and requests the keywords.
SaveSubmit(form) ==
  /\ ~searchVisible
  /\ save.pc = "idle"
  /\ isValid(form) => now < Seed1.createdAt + MaxCreates
  /\ marks' = [NoMarks EXCEPT !.save = markedFields[form]]
  /\ save' = IF isValid(form) THEN [SaveIdle EXCEPT !.pc = "tagging", !.form = form]
             ELSE save
  /\ toast' = NoToast
  /\ UNCHANGED <<documents, cache, remote, now, upd, deletes, sync, edit,
                 searchVisible, searchInput, ops, exec, view>>

\* const newDoc = { id: `doc_${Date.now()}`, ..., createdAt }
newDoc(form, tags, t) ==
  Doc(docId(t), trim(form.docNumber), trim(form.docDate), trim(form.source),
      trim(form.subject), trim(form.notes), tags, toISOString(t))

withFile(doc, file) ==
  [doc EXCEPT !.fileName = file.name, !.fileType = file.type,
              !.fileContent = fileToBase64(file)]

\* The keywords arrive (resultJson.keywords || []), newDoc is built, and
\* either the attachment is being encoded or the create request is sent.
\* A millisecond at least has passed since the last document was created.
SaveTagged ==
  /\ save.pc = "tagging"
  /\ now' = now + 1
  /\ \E tags \in TagLists :
       save' = [save EXCEPT
                  !.pc = IF save.form.file # NoFile THEN "encoding" ELSE "create",
                  !.call = IF save.form.file # NoFile THEN "none" ELSE "pending",
                  !.doc = newDoc(save.form, tags, now')]
  /\ marks' = NoMarks
  /\ toast' = NoToast
  /\ UNCHANGED <<documents, cache, remote, upd, deletes, sync, edit,
                 searchVisible, searchInput, ops, exec, view>>

\* catch (error): stopLoading(errorMessage, true)
saveAborts(message) ==
  /\ toast' = Toast("error", message)
  /\ save' = SaveIdle
  /\ marks' = NoMarks
  /\ UNCHANGED <<documents, cache, remote, now, upd, deletes, sync, edit,
                 searchVisible, searchInput, ops, exec, view>>

\* A save that goes on without keywords when the tagging fails.
SaveTaggingFails_SavesUntagged ==
  /\ save.pc = "tagging"
  /\ now' = now + 1
  /\ save' = [save EXCEPT !.pc = "create", !.call = "pending",
                          !.doc = newDoc(save.form, <<>>, now')]
  /\ marks' = NoMarks
  /\ toast' = NoToast
  /\ UNCHANGED <<documents, cache, remote, upd, deletes, sync, edit,
                 searchVisible, searchInput, ops, exec, view>>

\* generateContent rejects, or JSON.parse(response.text) throws.
SaveTaggingFails ==
  /\ save.pc = "tagging"
  /\ saveAborts(<<"tagging failed">>)

\* await fileToBase64(file) resolves: the create request is sent.
SaveEncoded ==
  /\ save.pc = "encoding"
  /\ save' = [save EXCEPT !.pc = "create", !.call = "pending",
                          !.doc = withFile(save.doc, save.form.file)]
  /\ marks' = NoMarks
  /\ toast' = NoToast
  /\ UNCHANGED <<documents, cache, remote, now, upd, deletes, sync, edit,
                 searchVisible, searchInput, ops, exec, view>>

\* reader.onerror rejects with an event, which is no Error: the default text.
SaveEncodingFails ==
  /\ save.pc = "encoding"
  /\ saveAborts(<<"could not save the document">>)

RemoteCreate ==
  /\ save.pc = "create" /\ save.call = "pending"
  /\ remote' = remoteCreate(remote, save.doc)
  /\ save' = [save EXCEPT !.call = "done"]
  /\ marks' = NoMarks
  /\ toast' = NoToast
  /\ UNCHANGED <<documents, cache, now, upd, deletes, sync, edit,
                 searchVisible, searchInput, ops, exec, view>>

\* await syncWithGoogleSheet('create', newDoc) returns:
\* documents.unshift(newDoc); saveDocuments(); stopLoading(saved, false).
\* An error thrown by the re-render lands in the same catch.
SaveSucceeds ==
  /\ save.pc = "create" /\ save.call = "done"
  /\ documents' = unshift(documents, save.doc)
  /\ cache' = saveDocuments(documents')
  /\ toast' = IF renderThrows(documents', searchVisible, searchInput)
              THEN Toast("error", <<MsgTypeError>>)
              ELSE Toast("success", <<"saved">>)
  /\ view' = IF renderThrows(documents', searchVisible, searchInput)
             THEN rerender(view, documents', searchVisible, searchInput)
             ELSE [rerender(view, documents', searchVisible, searchInput)
                     EXCEPT !.attachment = NoFile]
  /\ save' = SaveIdle
  /\ marks' = NoMarks
  /\ UNCHANGED <<remote, now, upd, deletes, sync, edit, searchVisible,
                 searchInput, ops, exec>>

\* await syncWithGoogleSheet('create', newDoc) throws.
SaveSyncFails ==
  /\ save.pc = "create" /\ save.call = "pending"
  /\ \E message \in SyncErrors : saveAborts(<<message>>)

(* -------------------------- handleUpdateDocument ------------------------ *)

\* Every id a document can have.
Ids == 1..(Seed1.createdAt + MaxCreates)

\* showEditModal(docId), from the edit button of a rendered row: with the
\* document found, edit-docId is set and the modal shown.
ShowEditModal(id) ==
  /\ searchVisible /\ ~edit.open
  /\ findIndex(documents, id) > 0
  /\ edit' = [open |-> TRUE, docId |-> id]
  /\ view' = [view EXCEPT !.editAttachment = NoFile]
  /\ marks' = NoMarks
  /\ toast' = NoToast
  /\ UNCHANGED <<documents, cache, remote, now, save, upd, deletes, sync,
                 searchVisible, searchInput, ops, exec>>

\* A click on the modal's overlay or close button.
CloseEditModal ==
  /\ edit.open
  /\ edit' = EditClosed
  /\ marks' = NoMarks
  /\ toast' = NoToast
  /\ UNCHANGED <<documents, cache, remote, now, save, upd, deletes, sync,
                 searchVisible, searchInput, ops, exec, view>>

\* An updated document built from the form alone, without the spread of the
\* stored one: its creation time is lost.
updatedDocData_NoSpread(doc, form) ==
  [Doc(doc.id, form.docNumber, trim(form.docDate), form.source, form.subject,
       form.notes, <<>>, toISOString(0))
   EXCEPT !.fileName = doc.fileName, !.fileType = doc.fileType,
          !.fileContent = doc.fileContent]

\* const updatedDocData = { ...documents[docIndex], docNumber, docDate,
\* source, subject, notes }: the form's values, the date alone trimmed.
updatedDocData(doc, form) ==
  [doc EXCEPT !.docNumber = form.docNumber, !.docDate = trim(form.docDate),
              !.source = form.source, !.subject = form.subject,
              !.notes = form.notes]

\* if (!isValid) return; ... if (docIndex === -1) return;
updateProceeds(form) == isValid(form) /\ findIndex(documents, edit.docId) > 0

\* Submit of the edit form, its button disabled while an update runs. It
\* returns on an invalid form and when findIndex finds no document (or
\* throws); else it looks the document up, merges the form over it and
\* either encodes the new attachment or sends the update request.
UpdateSubmit(form) ==
  /\ edit.open
  /\ upd.pc = "idle"
  /\ updateProceeds(form) => ops.updates < MaxUpdates
  /\ ops' = IF updateProceeds(form) THEN [ops EXCEPT !.updates = @ + 1] ELSE ops
  /\ marks' = [NoMarks EXCEPT !.edit = markedFields[form]]
  /\ upd' = IF updateProceeds(form)
            THEN [pc |-> IF form.file # NoFile THEN "encoding" ELSE "update",
                  docIndex |-> findIndex(documents, edit.docId),
                  file |-> form.file,
                  doc |-> updatedDocData(documents[findIndex(documents, edit.docId)], form),
                  call |-> IF form.file # NoFile THEN "none" ELSE "pending"]
            ELSE upd
  /\ toast' = NoToast
  /\ UNCHANGED <<documents, cache, remote, now, save, deletes, sync, edit,
                 searchVisible, searchInput, exec, view>>

\* await fileToBase64(file) resolves: the update request is sent.
UpdateEncoded ==
  /\ upd.pc = "encoding"
  /\ upd' = [upd EXCEPT !.pc = "update", !.call = "pending",
                        !.doc = withFile(upd.doc, upd.file)]
  /\ marks' = NoMarks
  /\ toast' = NoToast
  /\ UNCHANGED <<documents, cache, remote, now, save, deletes, sync, edit,
                 searchVisible, searchInput, ops, exec, view>>

\* await fileToBase64(file) rejects outside any try: the handler ends there
\* and the submit button stays disabled.
UpdateEncodingFails ==
  /\ upd.pc = "encoding"
  /\ upd' = [upd EXCEPT !.pc = "dead"]
  /\ marks' = NoMarks
  /\ toast' = NoToast
  /\ UNCHANGED <<documents, cache, remote, now, save, deletes, sync, edit,
                 searchVisible, searchInput, ops, exec, view>>

RemoteUpdate ==
  /\ upd.pc = "update" /\ upd.call = "pending"
  /\ remote' = remoteUpdate(remote, upd.doc)
  /\ upd' = [upd EXCEPT !.call = "done"]
  /\ marks' = NoMarks
  /\ toast' = NoToast
  /\ UNCHANGED <<documents, cache, now, save, deletes, sync, edit,
                 searchVisible, searchInput, ops, exec, view>>

\* await syncWithGoogleSheet('update', updatedDocData) returns:
\* documents[docIndex] = updatedDocData; saveDocuments(); the modal is
\* hidden and the success toast shown, unless the re-render threw.
UpdateSucceeds ==
  /\ upd.pc = "update" /\ upd.call = "done"
  /\ documents' = arraySet(documents, upd.docIndex, upd.doc)
  /\ cache' = saveDocuments(documents')
  /\ IF renderThrows(documents', searchVisible, searchInput)
     THEN /\ toast' = Toast("error", <<MsgTypeError>>) /\ edit' = edit
          /\ view' = rerender(view, documents', searchVisible, searchInput)
     ELSE /\ toast' = Toast("success", <<"updated">>) /\ edit' = EditClosed
          /\ view' = [rerender(view, documents', searchVisible, searchInput)
                        EXCEPT !.editAttachment = NoFile]
  /\ upd' = UpdIdle
  /\ marks' = NoMarks
  /\ UNCHANGED <<remote, now, save, deletes, sync, searchVisible,
                 searchInput, ops, exec>>

\* await syncWithGoogleSheet('update', updatedDocData) throws.
UpdateSyncFails ==
  /\ upd.pc = "update" /\ upd.call = "pending"
  /\ \E message \in SyncErrors : toast' = Toast("error", <<message>>)
  /\ upd' = UpdIdle
  /\ marks' = NoMarks
  /\ UNCHANGED <<documents, cache, remote, now, save, deletes, sync, edit,
                 searchVisible, searchInput, ops, exec, view>>

(* -------------------------- handleDeleteDocument ------------------------ *)

RemoveAt(seq, i) == SubSeq(seq, 1, i - 1) \o SubSeq(seq, i + 1, Len(seq))

\* handleDeleteDocument(docId), from the delete button of a rendered row:
\* with the document found and the confirm dialog accepted, the delete
\* request is sent; with no document of that id (a row left from before)
\* the handler returns at once: if (!doc) return.
DeleteClick(id) ==
  /\ searchVisible /\ ~edit.open
  /\ findIndex(documents, id) > 0 => ops.deletes < MaxDeletes
  /\ IF findIndex(documents, id) > 0
     THEN /\ ops' = [ops EXCEPT !.deletes = @ + 1]
          /\ deletes' = Append(deletes, [id |-> id, call |-> "pending"])
     ELSE UNCHANGED <<ops, deletes>>
  /\ marks' = NoMarks
  /\ toast' = NoToast
  /\ UNCHANGED <<documents, cache, remote, now, save, upd, sync, edit,
                 searchVisible, searchInput, exec, view>>

RemoteDelete(i) ==
  /\ deletes[i].call = "pending"
  /\ remote' = remoteDelete(remote, deletes[i].id)
  /\ deletes' = [deletes EXCEPT ![i].call = "done"]
  /\ marks' = NoMarks
  /\ toast' = NoToast
  /\ UNCHANGED <<documents, cache, now, save, upd, sync, edit,
                 searchVisible, searchInput, ops, exec, view>>

\* await syncWithGoogleSheet('delete', { id: docId }) returns:
\* documents = documents.filter(d => d.id !== docId); saveDocuments().
DeleteSucceeds(i) ==
  /\ deletes[i].call = "done"
  /\ documents' = filterOut(documents, deletes[i].id)
  /\ cache' = saveDocuments(documents')
  /\ toast' = IF renderThrows(documents', searchVisible, searchInput)
              THEN Toast("error", <<MsgTypeError>>)
              ELSE Toast("success", <<"deleted">>)
  /\ view' = rerender(view, documents', searchVisible, searchInput)
  /\ deletes' = RemoveAt(deletes, i)
  /\ marks' = NoMarks
  /\ UNCHANGED <<remote, now, save, upd, sync, edit, searchVisible,
                 searchInput, ops, exec>>

\* An optimistic delete: the document goes although the request failed.
DeleteSyncFails_Optimistic(i) ==
  /\ deletes[i].call = "pending"
  /\ \E message \in SyncErrors : toast' = Toast("error", <<message>>)
  /\ documents' = filterOut(documents, deletes[i].id)
  /\ cache' = saveDocuments(documents')
  /\ view' = rerender(view, documents', searchVisible, searchInput)
  /\ deletes' = RemoveAt(deletes, i)
  /\ marks' = NoMarks
  /\ UNCHANGED <<remote, now, save, upd, sync, edit, searchVisible,
                 searchInput, ops, exec>>

\* await syncWithGoogleSheet('delete', { id: docId }) throws.
DeleteSyncFails(i) ==
  /\ deletes[i].call = "pending"
  /\ \E message \in SyncErrors : toast' = Toast("error", <<message>>)
  /\ deletes' = RemoveAt(deletes, i)
  /\ marks' = NoMarks
  /\ UNCHANGED <<documents, cache, remote, now, save, upd, sync, edit,
                 searchVisible, searchInput, ops, exec, view>>

(* --------------------------------- tabs --------------------------------- *)

SwitchToSearch ==
  /\ ~searchVisible
  /\ searchVisible' = TRUE
  /\ view' = renderSearch(view, documents, searchInput)
  /\ marks' = NoMarks
  /\ toast' = NoToast
  /\ UNCHANGED <<documents, cache, remote, now, save, upd, deletes, sync,
                 edit, searchInput, ops, exec>>

SwitchToStore ==
  /\ searchVisible
  /\ ~edit.open
  /\ searchVisible' = FALSE
  /\ marks' = NoMarks
  /\ toast' = NoToast
  /\ UNCHANGED <<documents, cache, remote, now, save, upd, deletes, sync,
                 edit, searchInput, ops, exec, view>>

(* ------------------------ searching and sorting ------------------------- *)

\* The user types a query and submits the search form: handleSearch().
SubmitSearch(query) ==
  /\ searchVisible /\ ~edit.open
  /\ searchInput' = query
  /\ view' = renderSearch(view, documents, query)
  /\ marks' = NoMarks
  /\ toast' = NoToast
  /\ UNCHANGED <<documents, cache, remote, now, save, upd, deletes, sync,
                 edit, searchVisible, ops, exec>>

\* target.dataset.sortDirection of the clicked header: undefined ("none")
\* unless the header carries the attribute.
sortDirectionOf(table, sortKey) ==
  IF table.header.key = sortKey THEN table.header.direction ELSE "none"

\* A listener that sorts descending whatever the header shows.
nextDirection_AlwaysDesc(sort, sortKey, currentDirection) == "desc"

\* The direction the click listener chooses.
nextDirection(sort, sortKey, currentDirection) ==
  IF sort.key = sortKey /\ currentDirection = "desc" THEN "asc" ELSE "desc"

\* The click listener of the results container, on the view v: the sort is
\* set and the documents rendered last are rendered again.
sortHeaderClick(v, sortKey) ==
  renderResultsTable(
    [v EXCEPT !.sort =
       [key |-> sortKey,
        direction |-> nextDirection(v.sort, sortKey,
                                    sortDirectionOf(v.table, sortKey))]],
    v.lastRenderedDocs, v.lastRenderedTitle)

\* A click on a sortable header of the rendered table.
HeaderClick(sortKey) ==
  /\ searchVisible /\ ~edit.open
  /\ view.table.shown = "table"
  /\ view' = sortHeaderClick(view, sortKey)
  /\ marks' = NoMarks
  /\ toast' = NoToast
  /\ UNCHANGED <<documents, cache, remote, now, save, upd, deletes, sync,
                 edit, searchVisible, searchInput, ops, exec>>

(* ----------------------------- file inputs ------------------------------ *)

FileInputs == {"attachment", "editAttachment"}

\* The change event of a file input: the user has picked file in the
\* dialog, or none (NoFile). The save form is on the store tab, the edit
\* form in the modal.
ChooseFile(input, file) ==
  /\ input = "attachment" => ~searchVisible
  /\ input = "editAttachment" => edit.open
  /\ view' = [view EXCEPT ![input] = handleFileChange(file)]
  /\ marks' = NoMarks
  /\ toast' = NoToast
  /\ UNCHANGED <<documents, cache, remote, now, save, upd, deletes, sync,
                 edit, searchVisible, searchInput, ops, exec>>

(* ----------------------- one call, step by step ------------------------ *)

\* A call with the default arguments, before its first fetch.
ExecStart(action) ==
  [pc |-> "fetch", action |-> action, retries |-> DefaultRetries,
   delay |-> DefaultDelay, attempts |-> 0, waits |-> <<>>, status |-> 0,
   body |-> NoBody, result |-> Return("undefined")]

\* FetchFails retrying while retries >= 0: one attempt too many.
FetchFails_OffByOne ==
  /\ exec.pc = "fetch"
  /\ exec' = IF exec.retries >= 0
             THEN [exec EXCEPT !.pc = "backoff", !.attempts = @ + 1]
             ELSE [exec EXCEPT !.pc = "thrown", !.attempts = @ + 1,
                               !.result = Throw(MsgFailedToFetch)]
  /\ UNCHANGED <<appVars, view>>

\* await fetch(...) rejects with TypeError 'Failed to fetch': the outer catch
\* retries while retries > 0, else throws the detailed message.
FetchFails ==
  /\ exec.pc = "fetch"
  /\ exec' = IF exec.retries > 0
             THEN [exec EXCEPT !.pc = "backoff", !.attempts = @ + 1]
             ELSE [exec EXCEPT !.pc = "thrown", !.attempts = @ + 1,
                               !.result = Throw(MsgFailedToFetch)]
  /\ UNCHANGED <<appVars, view>>

\* await new Promise(resolve => setTimeout(resolve, delay)), then the
\* recursive call with retries - 1 and delay * 2.
Backoff ==
  /\ exec.pc = "backoff"
  /\ exec' = [exec EXCEPT !.pc = "fetch", !.waits = Append(@, exec.delay),
                          !.retries = @ - 1, !.delay = @ * 2]
  /\ UNCHANGED <<appVars, view>>

\* FetchResponds with the outer catch retrying on any error.
FetchResponds_RetryOnHttp ==
  /\ exec.pc = "fetch"
  /\ \E status \in Statuses :
       exec' = IF ok(status)
               THEN [exec EXCEPT !.pc = "text", !.attempts = @ + 1, !.status = status]
               ELSE IF exec.retries > 0
                    THEN [exec EXCEPT !.pc = "backoff", !.attempts = @ + 1,
                                      !.status = status]
                    ELSE [exec EXCEPT !.pc = "thrown", !.attempts = @ + 1,
                                      !.status = status, !.result = Throw(MsgHttp(status))]
  /\ UNCHANGED <<appVars, view>>

\* await fetch(...) resolves: a status that is not ok throws an Error the
\* outer catch re-throws as it is.
FetchResponds ==
  /\ exec.pc = "fetch"
  /\ \E status \in Statuses :
       exec' = IF ok(status)
               THEN [exec EXCEPT !.pc = "text", !.attempts = @ + 1, !.status = status]
               ELSE [exec EXCEPT !.pc = "thrown", !.attempts = @ + 1,
                                 !.status = status, !.result = Throw(MsgHttp(status))]
  /\ UNCHANGED <<appVars, view>>

\* await response.text() resolves, and the body is parsed; an error thrown
\* here is no fetch error, so the outer catch re-throws it.
TextArrives ==
  /\ exec.pc = "text"
  /\ \E body \in Bodies :
       exec' = [exec EXCEPT
                  !.pc = IF parseResponse(body).kind = "return" THEN "returned" ELSE "thrown",
                  !.body = body, !.result = parseResponse(body)]
  /\ UNCHANGED <<appVars, view>>

ExecNext == FetchFails \/ Backoff \/ FetchResponds \/ TextArrives

(* ----------------------------- specifications -------------------------- *)

\* The application from its start: exec stays a call that has not begun.
\* The user submits the forms with or without a file, searches with the
\* input empty and leaves the headers alone; the file inputs are followed
\* in SessionSpec, queries and header clicks in ViewSpec.
Init == AppInit /\ exec = ExecStart("read") /\ view = ViewStart

Next ==
  \/ RemoteRead \/ SyncSucceeds \/ SyncFails
  \/ \E form \in SaveForms : SaveSubmit(form)
  \/ SaveTagged \/ SaveTaggingFails \/ SaveEncoded \/ SaveEncodingFails
  \/ RemoteCreate \/ SaveSucceeds \/ SaveSyncFails
  \/ \E id \in Ids : ShowEditModal(id)
  \/ CloseEditModal
  \/ \E form \in EditForms : UpdateSubmit(form)
  \/ UpdateEncoded \/ UpdateEncodingFails
  \/ RemoteUpdate \/ UpdateSucceeds \/ UpdateSyncFails
  \/ \E id \in Ids : DeleteClick(id)
  \/ \E i \in 1..Len(deletes) : RemoteDelete(i) \/ DeleteSucceeds(i) \/ DeleteSyncFails(i)
  \/ SwitchToSearch \/ SwitchToStore

Spec == Init /\ [][Next]_vars

\* One call of syncWithGoogleSheet with the default arguments, for each
\* action, the application left as it started.
ExecInit ==
  /\ AppInit
  /\ \E action \in Actions : exec = ExecStart(action)
  /\ view = ViewStart

ExecSpec == ExecInit /\ [][ExecNext]_vars

\* The same, with every awaited promise settling: fetch resolves or
\* rejects, response.text() resolves, the back-off timer fires.
ExecFairSpec == ExecSpec /\ WF_vars(ExecNext)

(* ------------------------- the search view alone ------------------------ *)

BeDate(digits) == formatDateInput(digits)
Date2565 == BeDate(<<"0", "1", "0", "1", "2", "5", "6", "5">>)
Date2540 == BeDate(<<"0", "2", "1", "2", "2", "5", "4", "0">>)
Date0642 == BeDate(<<"0", "1", "0", "1", "0", "6", "4", "2">>)

\* Documents filed in earlier sessions.
Seed2 ==
  Doc(docId(2), <<"1", "0">>, Date2565, <<"a">>, <<"B">>, <<"c">>, <<>>,
      toISOString(2))
Seed3 ==
  withFile(Doc(docId(3), <<"7">>, Date2540, <<"A">>, <<"A", "b">>, <<>>,
               << <<"x">>, <<"A", "B", "C">> >>, toISOString(3)),
           File1)
Seed4 ==
  Doc(docId(4), <<"b">>, Date0642, <<"s">>, <<"a">>, <<>>, <<>>,
      toISOString(3))

Seeds == {Seed1, Seed2, Seed3, Seed4}

\* Eleven documents, one more than renderRecentDocuments shows, filed out
\* of the order of their creation times.
Eleven ==
  [i \in 1..(RecentCount + 1) |->
     Doc(docId(10 + i), <<"7">>, GoodDate, <<"s">>, <<"a">>, <<>>, <<>>,
         toISOString(((i * 4) % (RecentCount + 1)) + 1))]

\* The collections a session may hold once the sheet has been read: up to
\* MaxDocs of the seeds in any order, or the eleven.
Collections ==
  {c \in UNION {[1..n -> Seeds] : n \in 0..MaxDocs} :
     \A i, j \in 1..Len(c) : c[i] = c[j] => i = j}
  \cup {Eleven}

ViewIds == {d.id : d \in Seeds} \cup {Eleven[1].id}

\* What the user may type in the search input.
Queries ==
  {<<>>, <<" ">>, <<"a", "b", "c">>, <<"B">>, <<"1", "0">>, <<"f", " ">>,
   <<"x">>, <<"s", "s">>}

\* A session after its startup read: the sheet and the collection agree,
\* no handler runs, and one delete is left to the user.
ViewInit ==
  /\ documents \in Collections
  /\ cache = saveDocuments(documents)
  /\ remote = documents
  /\ now = Seed4.id
  /\ save = SaveIdle
  /\ upd = UpdIdle
  /\ deletes = <<>>
  /\ sync = [pc |-> "done", call |-> "none", data |-> <<>>]
  /\ edit = EditClosed
  /\ marks = NoMarks
  /\ toast = NoToast
  /\ searchVisible = FALSE
  /\ searchInput = <<>>
  /\ ops = [updates |-> MaxUpdates, deletes |-> MaxDeletes - 1]
  /\ exec = ExecStart("read")
  /\ view = ViewStart

ViewNext ==
  \/ SwitchToSearch \/ SwitchToStore
  \/ \E query \in Queries : SubmitSearch(query)
  \/ \E sortKey \in SortKeys : HeaderClick(sortKey)
  \/ \E id \in ViewIds : DeleteClick(id)
  \/ \E i \in 1..Len(deletes) : RemoteDelete(i) \/ DeleteSucceeds(i) \/ DeleteSyncFails(i)

ViewSpec == ViewInit /\ [][ViewNext]_vars

(* ----------------------- a session after its startup ------------------- *)

\* A session after its startup read, with one document filed.
SessionInit ==
  /\ documents = <<Seed1>>
  /\ cache = saveDocuments(documents)
  /\ remote = documents
  /\ now = Seed1.createdAt
  /\ save = SaveIdle
  /\ upd = UpdIdle
  /\ deletes = <<>>
  /\ sync = [pc |-> "done", call |-> "none", data |-> <<>>]
  /\ edit = EditClosed
  /\ marks = NoMarks
  /\ toast = NoToast
  /\ searchVisible = FALSE
  /\ searchInput = <<>>
  /\ ops = [updates |-> 0, deletes |-> 0]
  /\ exec = ExecStart("read")
  /\ view = ViewStart

\* The user picks files, submits the forms with what the inputs hold, and
\* deletes; the sheet is not read again.
SessionNext ==
  \/ \E input \in FileInputs, file \in Files \cup {NoFile} : ChooseFile(input, file)
  \/ SwitchToSearch \/ SwitchToStore
  \/ \E id \in Ids : ShowEditModal(id)
  \/ CloseEditModal
  \/ \E form \in SaveForms : SaveSubmit(Attached(form, view.attachment))
  \/ SaveTagged \/ SaveTaggingFails \/ SaveEncoded \/ SaveEncodingFails
  \/ RemoteCreate \/ SaveSucceeds \/ SaveSyncFails
  \/ \E form \in EditForms : UpdateSubmit(Attached(form, view.editAttachment))
  \/ UpdateEncoded \/ UpdateEncodingFails
  \/ RemoteUpdate \/ UpdateSucceeds \/ UpdateSyncFails
  \/ \E id \in Ids : DeleteClick(id)
  \/ \E i \in 1..Len(deletes) : RemoteDelete(i) \/ DeleteSucceeds(i) \/ DeleteSyncFails(i)

SessionSpec == SessionInit /\ [][SessionNext]_vars

(* ================================ claims ================================ *)

ExecDone == exec.pc \in {"returned", "thrown"}

\* No response has reached the call: every attempt so far was rejected with
\* 'Failed to fetch'.
OnlyTransportFailures == exec.status = 0

C7_Bound ==
  /\ exec.attempts <= 3
  /\ OnlyTransportFailures =>
       /\ Len(exec.waits) <= 2
       /\ \A i \in 1..Len(exec.waits) : exec.waits[i] = <<1000, 2000>>[i]
       /\ Len(exec.waits) = IF exec.pc = "backoff" THEN exec.attempts - 1
                            ELSE IF ExecDone THEN 2 ELSE exec.attempts
       /\ ExecDone => /\ exec.attempts = 3
                       /\ exec.result = Throw(MsgFailedToFetch)

\* C7: a call whose every attempt is a transport failure makes exactly 3
\* attempts, waits 1000 ms before the second and 2000 ms before the third,
\* and throws the connectivity message; no call makes a fourth attempt, and
\* every call ends.
C7_ThreeAttemptsThenFail == []C7_Bound /\ <>ExecDone

C7_Witness ==
  /\ ExecDone /\ OnlyTransportFailures
  /\ exec.attempts = 3 /\ exec.waits = <<1000, 2000>>

C8_FailsAtOnce ==
  /\ (exec.status # 0 /\ ~ok(exec.status)) =>
       /\ exec.pc = "thrown" /\ exec.result = Throw(MsgHttp(exec.status))
  /\ (exec.body # NoBody /\ ~exec.body.parses) =>
       /\ exec.pc = "thrown" /\ exec.result = Throw(MsgInvalidResponse)

\* C8: a status that is not 2xx, or a body that does not parse, ends the call
\* on that attempt: it is thrown at once, nothing follows it (no retry, no
\* wait), whatever retries remain; a wait only ever follows a rejected fetch.
C8_NoRetryOnHttpOrParseError ==
  /\ []C8_FailsAtOnce
  /\ [][~ExecDone]_exec
  /\ [][exec'.pc = "backoff" =>
         /\ exec.pc = "fetch" /\ exec'.status = exec.status
         /\ exec'.body = exec.body /\ exec'.waits = exec.waits]_exec

C8_Witness ==
  /\ exec.pc = "thrown" /\ exec.status = 500
  /\ exec.retries = DefaultRetries /\ exec.waits = <<>>

\* C9: a parsed body with success false and an error message makes the call
\* throw an error with that message.
C9_ServerMessageThrown ==
  (/\ exec.body # NoBody /\ exec.body.parses
   /\ exec.body.success = "false" /\ exec.body.error # "") =>
    /\ exec.pc = "thrown" /\ exec.result = Throw(exec.body.error)

(* --------------------- the claims on the application -------------------- *)

\* C1: when the remote call of a create, an update or a delete fails, the
\* handler ends without a change to documents or to the cache (a failed
\* delete leaves the length as it was); and a step changes documents or
\* the cache only when it ends a remote call that has succeeded.
C1_RemoteFirst ==
  [][/\ (save.pc = "create" /\ save.call = "pending" /\ save'.pc = "idle")
          => UNCHANGED <<documents, cache>>
     /\ (upd.pc = "update" /\ upd.call = "pending" /\ upd'.pc = "idle")
          => UNCHANGED <<documents, cache>>
     /\ \A i \in 1..Len(deletes) :
          (deletes[i].call = "pending" /\ deletes' = RemoveAt(deletes, i))
            => /\ UNCHANGED <<documents, cache>>
               /\ Len(documents') = Len(documents)
     /\ (documents' # documents \/ cache' # cache)
          => \/ save.pc = "create" /\ save.call = "done" /\ save'.pc = "idle"
             \/ upd.pc = "update" /\ upd.call = "done" /\ upd'.pc = "idle"
             \/ \E i \in 1..Len(deletes) :
                  deletes[i].call = "done" /\ deletes' = RemoveAt(deletes, i)
             \/ sync.pc = "read" /\ sync.call = "done" /\ sync'.pc = "done"
    ]_vars

\* A delete, the only mutation of the session, has just failed and the
\* document is still there.
C1_Witness ==
  /\ toast.type = "error" /\ Len(toast.message) = 1
  /\ toast.message[1] \in SyncErrors
  /\ ops = [updates |-> 0, deletes |-> 1] /\ deletes = <<>>
  /\ now = Seed1.createdAt
  /\ documents = <<Seed1>> /\ cache = JSON_stringify(<<Seed1>>)

\* C2: no two entries of documents have the same id.
C2_UniqueIds ==
  \A i, j \in 1..Len(documents) :
    (i # j /\ documents[i] # Hole /\ documents[j] # Hole)
      => documents[i].id # documents[j].id

\* The texts a subject contains.
C3_Substrings(s) ==
  {SubSeq(s, i, j) : i \in 1..Len(s), j \in 1..Len(s)} \ {<<>>}

C3_Has(docs, doc) == \E j \in 1..Len(docs) : docs[j] = doc

\* C3: when the startup read fails, every document a create of this session
\* has added is still in documents and in the cache, and a search for any
\* part of its subject shows it.
C3_CreatedSurvivesFailedSync ==
  [][(sync.pc = "read" /\ sync.call = "pending" /\ sync'.pc = "done") =>
       \A i \in 1..Len(documents) :
         (documents[i] # Hole /\ documents[i].id # Seed1.id) =>
           /\ C3_Has(documents', documents[i])
           /\ cache' # NoItem
           /\ C3_Has(JSON_parse(cache'), documents[i])
           /\ \A query \in C3_Substrings(documents[i].subject) :
                C3_Has(handleSearch(documents', query), documents[i])
    ]_vars

\* The read has just failed with a created document in the collection.
C3_Witness ==
  /\ sync.pc = "done"
  /\ toast.type = "error" /\ Len(toast.message) = 2
  /\ \E i \in 1..Len(documents) :
       /\ documents[i] # Hole /\ documents[i].id # Seed1.id
       /\ C3_Has(JSON_parse(cache), documents[i])
       /\ C3_Has(handleSearch(documents, <<"B">>), documents[i])

\* C4: the document an update sends and writes has the id and the createdAt
\* of the stored document it was looked up from; they stay so while the
\* update runs; and once it is written, the collection has an entry under
\* that id, and every entry under that id has that createdAt.
C4_UpdateKeepsIdAndCreatedAt ==
  [][/\ (upd.pc = "idle" /\ upd'.pc # "idle") =>
          /\ documents[upd'.docIndex].id = edit.docId
          /\ upd'.doc.id = documents[upd'.docIndex].id
          /\ upd'.doc.createdAt = documents[upd'.docIndex].createdAt
     /\ (upd.pc \notin {"idle", "dead"} /\ upd'.pc \notin {"idle", "dead"}) =>
          /\ upd'.doc.id = upd.doc.id
          /\ upd'.doc.createdAt = upd.doc.createdAt
     /\ (upd.pc = "update" /\ upd.call = "done" /\ upd'.pc = "idle") =>
          /\ \E j \in 1..Len(documents') :
               documents'[j] # Hole /\ documents'[j].id = upd.doc.id
          /\ \A j \in 1..Len(documents') :
               (documents'[j] # Hole /\ documents'[j].id = upd.doc.id)
                 => documents'[j].createdAt = upd.doc.createdAt
    ]_vars

\* An update of the seed document has just been written.
C4_Witness ==
  /\ toast = Toast("success", <<"updated">>)
  /\ \E j \in 1..Len(documents) :
       /\ documents[j] # Hole /\ documents[j].subject = <<"B">>
       /\ documents[j].id = Seed1.id
       /\ documents[j].createdAt = Seed1.createdAt

\* C5: a successful read replaces documents and the cache by the rows it
\* returned, whatever was there; a failed read leaves both and shows an
\* error.
C5_SyncReplacesOrKeeps ==
  [][/\ (sync.pc = "read" /\ sync.call = "done" /\ sync'.pc = "done") =>
          /\ documents' = sync.data
          /\ cache' # NoItem /\ JSON_parse(cache') = sync.data
     /\ (sync.pc = "read" /\ sync.call = "pending" /\ sync'.pc = "done") =>
          /\ UNCHANGED <<documents, cache>>
          /\ toast'.type = "error"
    ]_vars

\* The read has just succeeded and dropped a document that a finished
\* create had added: the sheet has it, the collection does not.
C5_Witness ==
  /\ toast = Toast("success", <<"synced">>)
  /\ save.pc = "idle"
  /\ \E i \in 1..Len(remote) : remote[i].id # Seed1.id
  /\ \A j \in 1..Len(documents) : documents[j].id = Seed1.id
  /\ cache = JSON_stringify(documents)

\* C6: whenever no handler is executing, what the cache holds, read back,
\* equals documents.
C6_CacheMirrors == loadDocuments(cache) = documents

C10_Blank(s) == \A i \in 1..Len(s) : s[i] = " "

C10_DatePattern(s) ==
  /\ Len(s) = 10 /\ s[3] = "/" /\ s[6] = "/"
  /\ \A i \in {1, 2, 4, 5, 7, 8, 9, 10} :
       s[i] \in {"0", "1", "2", "3", "4", "5", "6", "7", "8", "9"}

C10_Rejected(form) ==
  \/ C10_Blank(form.docNumber) \/ C10_Blank(form.source)
  \/ C10_Blank(form.subject) \/ ~C10_DatePattern(form.docDate)

\* C10: a submit of the save form (the store view shown, no save running)
\* or of the edit form (the modal open, no update running) with a required
\* field empty, or with a date that is not dd/dd/dddd, leaves documents, the
\* cache, the sheet and every handler as they were (no tagging request, no
\* request to the sheet); so a handler that runs has a form that passes.
C10_InvalidFormStopsLocally ==
  [][/\ (save.pc = "idle" /\ ~searchVisible) =>
          \A form \in SaveForms :
            (SaveSubmit(form) /\ C10_Rejected(form)) =>
              UNCHANGED <<documents, cache, remote, now, save, upd, deletes,
                          sync>>
     /\ (upd.pc = "idle" /\ edit.open) =>
          \A form \in EditForms :
            (UpdateSubmit(form) /\ C10_Rejected(form)) =>
              UNCHANGED <<documents, cache, remote, now, save, upd, deletes,
                          sync>>
     /\ save'.pc # "idle" => ~C10_Rejected(save'.form)
     /\ upd'.pc \notin {"idle", "dead"} => ~C10_Rejected(upd'.doc)
    ]_vars

\* A save form without a document number has just been refused.
C10_Witness ==
  /\ marks = [save |-> {"docNumber"}, edit |-> {}]
  /\ save = SaveIdle

\* C11: an update or a delete for an id that no document of the collection
\* has sends no request, changes neither documents nor the cache, and tells
\* the user (a toast) that the document was not found.
C11_AbsentIdNotified ==
  [][/\ (edit.open /\ upd.pc = "idle"
         /\ findIndex(documents, edit.docId) = 0) =>
          \A form \in EditForms :
            (UpdateSubmit(form) /\ ~C10_Rejected(form)) =>
              /\ UNCHANGED <<documents, cache, remote, upd>>
              /\ toast'.type = "error"
     /\ (searchVisible /\ ~edit.open) =>
          \A id \in Ids :
            (findIndex(documents, id) = 0 /\ DeleteClick(id)) =>
              /\ UNCHANGED <<documents, cache, remote, deletes>>
              /\ toast'.type = "error"
    ]_vars

\* C12: when the tagging call fails (or its answer does not parse), the
\* save ends there: no create request is sent, documents, the cache and the
\* sheet stay as they were, and an error toast is shown.
C12_TaggingFailureAborts ==
  [][SaveTaggingFails =>
       /\ UNCHANGED <<documents, cache, remote>>
       /\ save'.pc = "idle" /\ save'.call = "none"
       /\ toast'.type = "error"
    ]_vars

\* The tagging of a submitted form has just failed.
C12_Witness ==
  /\ toast = Toast("error", <<"tagging failed">>)
  /\ save = SaveIdle
  /\ now = Seed1.createdAt

(* ----------------------- the claims on the file inputs ------------------ *)

C13_TooLarge(file) == file # NoFile /\ file.size > 52428800

C13_NothingTooLarge ==
  /\ \A input \in FileInputs : ~C13_TooLarge(view[input])
  /\ save.pc # "idle" => ~C13_TooLarge(save.form.file)
  /\ upd.pc \notin {"idle", "dead"} => ~C13_TooLarge(upd.file)

\* C13: a picked file of more than 50 * 1024 * 1024 bytes is refused by the
\* change handler and the input left empty, so that neither input nor a
\* running create or update ever holds such a file; a file of exactly that
\* size and of an allowed type stays in the input.
C13_OversizeRejected ==
  [][/\ \A input \in FileInputs, file \in Files :
          ChooseFile(input, file) =>
            /\ file.size > 52428800 => view'[input] = NoFile
            /\ (file.size = 52428800 /\ file.type \in allowedTypes) =>
                 view'[input] = file
     /\ C13_NothingTooLarge'
    ]_vars

\* A file of exactly 50 MB was picked, kept, and is part of the document a
\* create request carries.
C13_Witness ==
  /\ save.pc = "create" /\ save.call = "pending"
  /\ save.form.file # NoFile /\ save.form.file.size = 52428800
  /\ save.doc.fileName = save.form.file.name
  /\ view.attachment = save.form.file

(* ------------------------ the claims on the search ---------------------- *)

C14_Lower(c) == IF c = "A" THEN "a" ELSE IF c = "B" THEN "b" ELSE IF c = "C" THEN "c" ELSE c

\* q occurs in text, whatever the case of the letters.
C14_Occurs(q, text) ==
  \E at \in 0..(Len(text) - Len(q)) :
    \A j \in 1..Len(q) : C14_Lower(text[at + j]) = C14_Lower(q[j])

C14_Fields(doc) ==
  {doc.subject, doc.docNumber, doc.source, doc.notes}
  \cup (IF doc.fileName = Undefined THEN {} ELSE {doc.fileName})
  \cup {doc.tags[i] : i \in 1..Len(doc.tags)}

\* The query without the blanks around it.
C14_Term(input) ==
  LET inside == {i \in 1..Len(input) : input[i] # " "}
  IN IF inside = {} THEN <<>>
     ELSE SubSeq(input, CHOOSE i \in inside : \A j \in inside : i <= j,
                        CHOOSE i \in inside : \A j \in inside : i >= j)

C14_Found(docs, input) ==
  SelectSeq(docs, LAMBDA doc : \E text \in C14_Fields(doc) :
                                 C14_Occurs(C14_Term(input), text))

C14_Shows(v, docs) ==
  /\ v.lastRenderedDocs = docs
  /\ IF docs = <<>> THEN v.table.shown = "placeholder"
     ELSE /\ v.table.shown = "table"
          /\ Len(v.table.rows) = Len(docs)
          /\ \A i \in 1..Len(docs) :
               \E j \in 1..Len(docs) : v.table.rows[j] = docs[i]

\* C14: a search with a query that is not blank shows exactly the documents
\* of the collection, in the collection's order before sorting, of which
\* the subject, the number, the source, the notes, the file name or a tag
\* contains the query (blanks around it removed) whatever the case of the
\* letters; so does the re-render after a delete while the query stands.
C14_SearchFindsExactly ==
  [][/\ \A query \in Queries :
          (C14_Term(query) # <<>> /\ SubmitSearch(query)) =>
            C14_Shows(view', C14_Found(documents, query))
     /\ (searchVisible /\ C14_Term(searchInput) # <<>> /\ documents' # documents) =>
          C14_Shows(view', C14_Found(documents', searchInput))
    ]_vars

\* The query "abc" has found the document tagged "ABC" among three, and
\* only that one.
C14_Witness ==
  /\ searchInput = <<"a", "b", "c">>
  /\ Len(documents) = 3
  /\ view.table.shown = "table"
  /\ view.table.rows = <<Seed3>>
  /\ <<"A", "B", "C">> \in {Seed3.tags[i] : i \in 1..Len(Seed3.tags)}

C15_Top(rows, docs) ==
  /\ Len(rows) = (IF Len(docs) < 10 THEN Len(docs) ELSE 10)
  /\ \A i \in 1..Len(rows) : \E j \in 1..Len(docs) : rows[i] = docs[j]
  /\ \A i, j \in 1..Len(rows) : (rows[i] = rows[j]) => (i = j)
  /\ \A i, j \in 1..Len(rows) : (i < j) => (rows[i].createdAt >= rows[j].createdAt)
  /\ \A j \in 1..Len(docs) :
       (\A i \in 1..Len(rows) : rows[i] # docs[j]) =>
         \A i \in 1..Len(rows) : rows[i].createdAt >= docs[j].createdAt

C15_Blank(input) == \A i \in 1..Len(input) : input[i] = " "

\* C15: a search with a blank query shows the ten documents created last
\* (all of them when there are fewer), the last created first, and leaves
\* the active sort at createdAt, descending.
C15_RecentAndSortReset ==
  [][\A query \in Queries :
       (C15_Blank(query) /\ SubmitSearch(query)) =>
         /\ view'.sort = [key |-> "createdAt", direction |-> "desc"]
         /\ C15_Top(view'.table.rows, documents)
    ]_vars

\* The same for collections that hold a document.
C15_RecentOfNonEmpty ==
  [][\A query \in Queries :
       (C15_Blank(query) /\ documents # <<>> /\ SubmitSearch(query)) =>
         /\ view'.sort = [key |-> "createdAt", direction |-> "desc"]
         /\ view'.table.shown = "table"
         /\ C15_Top(view'.table.rows, documents)
    ]_vars

(* ------------------------- the claims on the sort ----------------------- *)

C16_Digit(c) == CHOOSE n \in 0..9 : <<"0", "1", "2", "3", "4", "5", "6", "7", "8", "9">>[n + 1] = c

\* The calendar day a date DD/MM/YYYY of the Buddhist Era names, as a
\* number that grows with the year (less 543), then the month, then the
\* day.
C16_Calendar(date) ==
  LET day == 10 * C16_Digit(date[1]) + C16_Digit(date[2])
      month == 10 * C16_Digit(date[4]) + C16_Digit(date[5])
      year == 1000 * C16_Digit(date[7]) + 100 * C16_Digit(date[8])
                + 10 * C16_Digit(date[9]) + C16_Digit(date[10])
  IN ((year - 543) * 12 + month) * 31 + day

C16_Ordered(rows, direction) ==
  \A i, j \in 1..Len(rows) :
    (i < j) =>
      IF direction = "desc"
      THEN C16_Calendar(rows[i].docDate) >= C16_Calendar(rows[j].docDate)
      ELSE C16_Calendar(rows[i].docDate) <= C16_Calendar(rows[j].docDate)

\* C16: a table sorted by docDate shows its rows in the order of the
\* calendar days their dates name, the latest first when descending and
\* last when ascending, for any dates of the pattern DD/MM/YYYY.
C16_SortsByCalendar ==
  (view.table.shown = "table" /\ view.table.header.key = "docDate") =>
    C16_Ordered(view.table.rows, view.table.header.direction)

\* The same for documents dated in the year 643 of the Buddhist Era or
\* later.
C16_SortsByCalendarSince643 ==
  (/\ view.table.shown = "table" /\ view.table.header.key = "docDate"
   /\ \A i \in 1..Len(view.table.rows) : view.table.rows[i] # Seed4) =>
    C16_Ordered(view.table.rows, view.table.header.direction)

C17_Flip(direction) == IF direction = "desc" THEN "asc" ELSE "desc"

\* C17: a click on the header of the current sort key turns the direction
\* round, a click on another sortable header sorts by its key, descending;
\* and after a click on the header of the current key a second click on it
\* gives back the direction and the rows as they were before the first.
C17_ClickTogglesAndRestores ==
  [][\A sortKey \in SortKeys :
       HeaderClick(sortKey) =>
         /\ view'.sort.key = sortKey
         /\ view'.sort.direction =
              (IF view.sort.key = sortKey THEN C17_Flip(view.sort.direction)
               ELSE "desc")
         /\ view'.table.shown = "table"
         /\ (view.sort.key = sortKey) =>
              /\ sortHeaderClick(view', sortKey).sort = view.sort
              /\ sortHeaderClick(view', sortKey).table = view.table
    ]_vars

\* The header of the date column was clicked twice: three rows stand in
\* ascending order of their dates, which is not the order they were found in.
C17_Witness ==
  /\ view.sort = [key |-> "docDate", direction |-> "asc"]
  /\ view.table.shown = "table"
  /\ view.table.header = view.sort
  /\ Len(view.table.rows) = 3
  /\ view.table.rows # view.lastRenderedDocs

(* -------------------- the claims on overlapping handlers ---------------- *)

C18_IsOther(entry, id) == entry = Hole \/ entry.id # id

\* C18: the local write of an update leaves the length of the collection
\* and every entry with another id, at its place, as they were, whatever
\* completed while the update was encoding its file or waiting for the
\* sheet.
C18_UpdateReplacesOnlyItsEntry ==
  [][UpdateSucceeds =>
       /\ Len(documents') = Len(documents)
       /\ \A i \in 1..Len(documents) :
            C18_IsOther(documents[i], upd.doc.id) =>
              documents'[i] = documents[i]
    ]_vars

C19_Ids(docs) == {docs[i].id : i \in {j \in 1..Len(docs) : docs[j] \notin {Hole, Null}}}

\* C19: in a session that does not read the sheet again, a document that a
\* delete has removed from the collection stays out of the collection and
\* of the cache: no step, and not the local write of an update that was in
\* flight when the delete completed, brings its id back.
C19_DeletedStaysDeleted ==
  [][\A id \in C19_Ids(<<Seed1>>) :
       (id \notin C19_Ids(documents)) =>
         /\ id \notin C19_Ids(documents')
         /\ id \notin C19_Ids(loadDocuments(cache'))
    ]_vars

C20_Idle == save.pc = "idle" /\ upd.pc \in {"idle", "dead"} /\ deletes = <<>>

C20_IdsOf(docs) == {docs[i].id : i \in {j \in 1..Len(docs) : docs[j] # Hole}}

\* C20: when the startup read succeeds while no other handler is running,
\* the collection holds the documents of the sheet, by their ids: one that
\* a create added to both while the read was under way is among them.
C20_SyncedWithSheet ==
  [][(SyncSucceeds /\ C20_Idle) =>
       C20_IdsOf(documents') = C20_IdsOf(remote')
    ]_vars

====
